---- MODULE Spec2Model ----
(***************************************************************************)
(* Model of onnxruntime/core/graph/model.cc: the two Model constructors    *)
(* (fresh, decode-from-descriptor) with their opset negotiation, the       *)
(* accessors, ToProto, and the load/save entry points over every surface   *)
(* (descriptor, byte buffer, file descriptor, path).                       *)
(*                                                                         *)
(* External collaborators are modelled by their contract only:             *)
(*   - the protobuf codec: a byte source either fails to parse or yields   *)
(*     a descriptor;                                                       *)
(*   - Env::FileOpenRd / FileOpenWr / FileClose: return a Status;          *)
(*   - Graph::Resolve: returns a Status;                                   *)
(*   - SchemaRegistryManager::GetLatestOpsetVersions: a domain->version    *)
(*     map whose iteration order is unspecified (std::unordered_map).      *)
(* Every entry point is one action: the whole call, from its guard to its  *)
(* return (or to the exception leaving it).                                *)
(***************************************************************************)
EXTENDS Integers, Sequences, FiniteSets, TLC

VARIABLES
  registry,   \* GetLatestOpsetVersions(false) of the registries in use: domain -> latest version
  file,       \* what the byte source (buffer, file) holds: Garbage or an encoded descriptor
  desc,       \* the caller's ModelProto (NullProto when the caller holds none)
  origin,     \* the Model `desc` was last taken from by ToProto (NoModel: desc is external)
  p_model,    \* the caller's std::shared_ptr<Model> output handle
  open_fds,   \* the file descriptors currently open in the process
  op,         \* the entry point called last
  ret,        \* how that call ended: a returned Status, or an exception leaving the call
  events      \* the collaborator calls that call made, in order

vars == <<registry, file, desc, origin, p_model, open_fds, op, ret, events>>

----------------------------------------------------------------------------
(* Bounds and constants *)

\* Longest opset-import list of an external descriptor.
MaxOpsets == 2

\* model.cc:111, the lowest ai.onnx opset the runtime guarantees support for.
MinSupportedOpset == 7

kOnnxDomain == ""
kOnnxDomainAlias == "ai.onnx"
kMLDomain == "ai.onnx.ml"
kMSDomain == "com.microsoft"

ImportDomains == {kOnnxDomain, kOnnxDomainAlias, kMLDomain}
\* The versions an import entry may carry: below and above the supported
\* minimum, and one (2^16 + 5) that does not fit the narrower integer type.
ImportVersions == {5, 9, 11, 65541}

\* The registry keys the default domain canonically (""), never under the
\* alias spelling (model.cc:122-124); the built-in source always knows it.
Registries ==
  { [d \in {kOnnxDomain} \cup S |->
       IF d = kOnnxDomain THEN 12 ELSE IF d = kMLDomain THEN 2 ELSE 1]
    : S \in {{}, {kMLDomain}, {kMLDomain, kMSDomain}} }

GraphValues == {"g0", "g1"}
ProducerNames == {"", "X"}
MetaKeys == {"k1", "k2"}
MetaValues == {"a", "b"}

EmptyMap == [d \in {} |-> 0]

\* All orders in which the elements of S can be visited (an unordered_map's
\* iteration order is unspecified).
Orders(S) ==
  { s \in [1..Cardinality(S) -> S] : \A i, j \in 1..Cardinality(S) : s[i] = s[j] => i = j }

\* All sequences over S of length at most n.
SeqsUpTo(S, n) == UNION { [1..k -> S] : k \in 0..n }

----------------------------------------------------------------------------
(* Status *)

MakeStatus(cat, code, msg) == [category |-> cat, code |-> code, msg |-> msg]
StatusOK == MakeStatus("NONE", "OK", "")
IsOK(s) == s.code = "OK"

\* What Graph::Resolve may report.
ResolveStatuses ==
  { StatusOK, MakeStatus("ONNXRUNTIME", "INVALID_GRAPH", "node input not found") }

\* What Env::FileOpenRd / FileOpenWr may report.  An Env is an interface:
\* its failures need not be of the SYSTEM category.
OpenStatuses ==
  { StatusOK,
    MakeStatus("SYSTEM", "ENOENT", ""),
    MakeStatus("SYSTEM", "EINVAL", ""),
    MakeStatus("SYSTEM", "EACCES", ""),
    MakeStatus("ONNXRUNTIME", "FAIL", "open failed") }

\* What Env::FileClose may report for an open descriptor.
CloseStatuses == { StatusOK, MakeStatus("SYSTEM", "EIO", "") }

\* How a call ends.
Returned(s) == [kind |-> "return", status |-> s, what |-> ""]
Thrown(w) == [kind |-> "throw", status |-> StatusOK, what |-> w]
NoCall == [kind |-> "none", status |-> StatusOK, what |-> ""]

\* One collaborator call: its name, its argument (a file descriptor, the
\* version a warning names, Resolve's flag; 0 when it has none), the status
\* it ended with and whether that is a success.
Ev(call, arg, st) == [call |-> call, arg |-> arg, ok |-> IsOK(st), status |-> st]

\* How the calls that return no Status fail: the codec's parse or serialize
\* returning false, a constructor throwing std::invalid_argument.
CodecError == MakeStatus("PROTOBUF", "false", "")
Exception(w) == MakeStatus("EXCEPTION", "std::invalid_argument", w)

----------------------------------------------------------------------------
(* ModelProto and Model *)

OpsetId(d, v) == [domain |-> d, version |-> v]
Prop(k, v) == [key |-> k, value |-> v]

\* A ModelProto: the fields model.cc reads or writes.
Proto(hg, g, imports, props, pname, funcs) ==
  [null |-> FALSE, has_graph |-> hg, graph |-> g, opset_import |-> imports,
   metadata_props |-> props, producer_name |-> pname, functions |-> funcs,
   producer_version |-> "", domain |-> "", model_version |-> 0, doc_string |-> ""]

\* A null std::unique_ptr<ModelProto> / no descriptor held.
NullProto ==
  [null |-> TRUE, has_graph |-> FALSE, graph |-> "g0", opset_import |-> <<>>,
   metadata_props |-> <<>>, producer_name |-> "", functions |-> <<>>,
   producer_version |-> "", domain |-> "", model_version |-> 0, doc_string |-> ""]

\* An empty std::shared_ptr<Model>.
NoModel ==
  [bound |-> FALSE, ctor |-> "none", model_proto |-> NullProto,
   model_metadata |-> EmptyMap, domain_to_version |-> EmptyMap,
   graph |-> "g0", graph_functions |-> {}]

\* A byte source: bytes the codec rejects, or the encoding of a descriptor.
Garbage == [parses |-> FALSE, proto |-> NullProto]
Encoded(p) == [parses |-> TRUE, proto |-> p]

\* gsl::narrow_cast<int>(int64): the low bits of the wider integer, two's
\* complement.  TLC's integers are 32 bits wide, so the pair
\* (int64, int) is scaled to (32 bits, 16 bits): a version keeps its value
\* iff it fits the narrower type.
NarrowCastInt(v) == ((v + 2^15) % 2^16) - 2^15

\* SchemaRegistryManager::GetLatestOpsetVersions(is_onnx_only) over the
\* registries in use.
GetLatestOpsetVersions(latest, is_onnx_only) ==
  IF is_onnx_only
    THEN [d \in DOMAIN latest \cap {kOnnxDomain} |-> latest[d]]
    ELSE latest

\* model.cc:95-97: the metadata map after the first n props, later entries
\* overwriting earlier ones of the same key.
RECURSIVE MetaDataOf(_, _)
MetaDataOf(props, n) ==
  IF n = 0 THEN EmptyMap
  ELSE LET prev == MetaDataOf(props, n - 1)
           e == props[n]
       IN [k \in DOMAIN prev \cup {e.key} |-> IF k = e.key THEN e.value ELSE prev[k]]

\* ImportKey without the alias branch of model.cc:125-126.
ImportKeyVerbatim(domain) == domain

\* model.cc:125-129: the key an import entry is stored under.
ImportKey(domain) ==
  IF domain = kOnnxDomainAlias THEN kOnnxDomain ELSE domain

\* model.cc:106-130: domain_to_version after the first n import entries.
RECURSIVE ImportTable(_, _)
ImportTable(imports, n) ==
  IF n = 0 THEN EmptyMap
  ELSE LET prev == ImportTable(imports, n - 1)
           e == imports[n]
           key == ImportKey(e.domain)
       IN [d \in DOMAIN prev \cup {key} |->
             IF d = key THEN NarrowCastInt(e.version) ELSE prev[d]]

\* model.cc:111-121: the versions the low-opset warning is logged for, in order.
RECURSIVE LowOpsetWarnings(_, _)
LowOpsetWarnings(imports, n) ==
  IF n = 0 THEN <<>>
  ELSE LET e == imports[n]
           rest == LowOpsetWarnings(imports, n - 1)
       IN IF (e.domain = kOnnxDomain \/ e.domain = kOnnxDomainAlias)
             /\ e.version < MinSupportedOpset
            THEN Append(rest, e.version)
            ELSE rest

\* FillDefaults without the add_opset_import of model.cc:136-138: the table
\* is filled, the descriptor is not.
RECURSIVE FillTableOnly(_, _, _, _, _)
FillTableOnly(table, imports, latest, order, n) ==
  IF n = 0 THEN [table |-> table, imports |-> imports]
  ELSE LET prev == FillTableOnly(table, imports, latest, order, n - 1)
           d == order[n]
       IN IF d \in DOMAIN prev.table
            THEN prev
            ELSE [table |-> [x \in DOMAIN prev.table \cup {d} |->
                               IF x = d THEN latest[d] ELSE prev.table[x]],
                  imports |-> prev.imports]

\* FillDefaults without the lookup of model.cc:134: every registry domain is
\* appended.
RECURSIVE FillAlways(_, _, _, _, _)
FillAlways(table, imports, latest, order, n) ==
  IF n = 0 THEN [table |-> table, imports |-> imports]
  ELSE LET prev == FillAlways(table, imports, latest, order, n - 1)
           d == order[n]
       IN [table |-> [x \in DOMAIN prev.table \cup {d} |->
                        IF x = d THEN latest[d] ELSE prev.table[x]],
           imports |-> Append(prev.imports, OpsetId(d, latest[d]))]

\* model.cc:132-140: the table and the import list after the first n entries
\* of domain_map, visited in `order`, have been looked up and appended if absent.
RECURSIVE FillDefaults(_, _, _, _, _)
FillDefaults(table, imports, latest, order, n) ==
  IF n = 0 THEN [table |-> table, imports |-> imports]
  ELSE LET prev == FillDefaults(table, imports, latest, order, n - 1)
           d == order[n]
       IN IF d \in DOMAIN prev.table
            THEN prev
            ELSE [table |-> [x \in DOMAIN prev.table \cup {d} |->
                               IF x = d THEN latest[d] ELSE prev.table[x]],
                  imports |-> Append(prev.imports, OpsetId(d, latest[d]))]

\* The names of a function list, as the function map's key set.
FunctionNames(funcs) == { funcs[i] : i \in DOMAIN funcs }

\* What a constructor call yields: a Model, or the exception it throws.
Built(m, warnings) == [thrown |-> FALSE, what |-> "", model |-> m, warnings |-> warnings]
Throws(w) == [thrown |-> TRUE, what |-> w, model |-> NoModel, warnings |-> <<>>]

\* The decode constructor without the opset_import_size() check of
\* model.cc:88-92.
ModelFromProtoNoOpsetCheck(model_proto, latest, order) ==
  IF model_proto.null
    THEN Throws("ModelProto was null.")
  ELSE IF ~model_proto.has_graph
    THEN Throws("ModelProto does not have a graph.")
  ELSE
    LET imports == model_proto.opset_import
        explicit == ImportTable(imports, Len(imports))
        filled == FillDefaults(explicit, imports, latest, order, Len(order))
    IN Built([bound |-> TRUE, ctor |-> "decode",
              model_proto |-> [model_proto EXCEPT !.opset_import = filled.imports],
              model_metadata |->
                MetaDataOf(model_proto.metadata_props, Len(model_proto.metadata_props)),
              domain_to_version |-> filled.table,
              graph |-> model_proto.graph,
              graph_functions |-> FunctionNames(model_proto.functions)],
             LowOpsetWarnings(imports, Len(imports)))

\* model.cc:79-150, Model::Model(std::unique_ptr<ModelProto>, local_registries).
\* `order` is the iteration order of domain_map.
ModelFromProto(model_proto, latest, order) ==
  IF model_proto.null
    THEN Throws("ModelProto was null.")
  ELSE IF ~model_proto.has_graph
    THEN Throws("ModelProto does not have a graph.")
  ELSE IF Len(model_proto.opset_import) = 0
    THEN Throws("Missing opset in the model.")
  ELSE
    LET imports == model_proto.opset_import
        explicit == ImportTable(imports, Len(imports))
        filled == FillDefaults(explicit, imports, latest, order, Len(order))
    IN Built([bound |-> TRUE, ctor |-> "decode",
              model_proto |-> [model_proto EXCEPT !.opset_import = filled.imports],
              model_metadata |->
                MetaDataOf(model_proto.metadata_props, Len(model_proto.metadata_props)),
              domain_to_version |-> filled.table,
              graph |-> model_proto.graph,
              graph_functions |-> FunctionNames(model_proto.functions)],
             LowOpsetWarnings(imports, Len(imports)))

\* The fresh constructor filling the caller's map with the registry's
\* latest versions, as the decode constructor does (model.cc:132-140).
FreshModelFilled(is_onnx_domain_only, model_metadata, latest, domain_to_version, model_functions, meta_order, opset_order) ==
  LET table == IF DOMAIN domain_to_version = {}
                 THEN GetLatestOpsetVersions(latest, is_onnx_domain_only)
                 ELSE [d \in DOMAIN domain_to_version \cup DOMAIN latest |->
                         IF d \in DOMAIN domain_to_version THEN domain_to_version[d] ELSE latest[d]]
  IN [bound |-> TRUE,
      ctor |-> IF DOMAIN domain_to_version = {} THEN "fresh-default" ELSE "fresh-explicit",
      model_proto |->
        Proto(TRUE, "g0",
              [i \in 1..Len(opset_order) |-> OpsetId(opset_order[i], table[opset_order[i]])],
              [i \in 1..Len(meta_order) |-> Prop(meta_order[i], model_metadata[meta_order[i]])],
              "", model_functions),
      model_metadata |-> model_metadata,
      domain_to_version |-> table,
      graph |-> "g0",
      graph_functions |-> FunctionNames(model_functions)]

\* The fresh constructor without the metadata_props loop of model.cc:39-43.
FreshModelNoProps(is_onnx_domain_only, model_metadata, latest, domain_to_version, model_functions, meta_order, opset_order) ==
  LET table == IF DOMAIN domain_to_version = {}
                 THEN GetLatestOpsetVersions(latest, is_onnx_domain_only)
                 ELSE domain_to_version
  IN [bound |-> TRUE,
      ctor |-> IF DOMAIN domain_to_version = {} THEN "fresh-default" ELSE "fresh-explicit",
      model_proto |->
        Proto(TRUE, "g0",
              [i \in 1..Len(opset_order) |-> OpsetId(opset_order[i], table[opset_order[i]])],
              <<>>, "", model_functions),
      model_metadata |-> model_metadata,
      domain_to_version |-> table,
      graph |-> "g0",
      graph_functions |-> FunctionNames(model_functions)]

\* model.cc:29-73, Model::Model(graph_name, is_onnx_domain_only, model_metadata,
\* local_registries, domain_to_version, model_functions).  `meta_order` and
\* `opset_order` are the iteration orders of the two unordered_maps.
FreshModel(is_onnx_domain_only, model_metadata, latest, domain_to_version, model_functions, meta_order, opset_order) ==
  LET table == IF DOMAIN domain_to_version = {}
                 THEN GetLatestOpsetVersions(latest, is_onnx_domain_only)
                 ELSE domain_to_version
  IN [bound |-> TRUE,
      ctor |-> IF DOMAIN domain_to_version = {} THEN "fresh-default" ELSE "fresh-explicit",
      model_proto |->
        Proto(TRUE, "g0",
              [i \in 1..Len(opset_order) |-> OpsetId(opset_order[i], table[opset_order[i]])],
              [i \in 1..Len(meta_order) |-> Prop(meta_order[i], model_metadata[meta_order[i]])],
              "", model_functions),
      model_metadata |-> model_metadata,
      domain_to_version |-> table,
      graph |-> "g0",
      graph_functions |-> FunctionNames(model_functions)]

\* model.cc:163-165, Model::SetProducerName.
SetProducerNameModel(m, producer_name) ==
  [m EXCEPT !.model_proto.producer_name = producer_name]

\* model.cc:171-173, Model::SetProducerVersion.
SetProducerVersionModel(m, producer_version) ==
  [m EXCEPT !.model_proto.producer_version = producer_version]

\* model.cc:179-181, Model::SetDomain.
SetDomainModel(m, domain) ==
  [m EXCEPT !.model_proto.domain = domain]

\* model.cc:190-192, Model::SetModelversion.
SetModelversionModel(m, version) ==
  [m EXCEPT !.model_proto.model_version = version]

\* model.cc:198-200, Model::SetDocString.
SetDocStringModel(m, doc_string) ==
  [m EXCEPT !.model_proto.doc_string = doc_string]

\* model.cc:214-218, Model::AddFunction: the function is appended to the
\* descriptor's function list and handed to the graph.
AddFunctionModel(m, func_proto) ==
  [m EXCEPT !.model_proto.functions = Append(@, func_proto),
            !.graph_functions = @ \cup {func_proto}]

\* model.cc:206-208, Model::MainGraph: the caller edits the graph through
\* the reference returned; the descriptor is not touched.
MainGraphModel(m, g) ==
  [m EXCEPT !.graph = g]

\* ToProto without the assignment of model.cc:221: the descriptor is
\* returned as it is.
ToProtoModelStale(m) == m

\* model.cc:220-223, Model::ToProto: the Model after the call; the value
\* returned is its model_proto.
ToProtoModel(m) ==
  [m EXCEPT !.model_proto.has_graph = TRUE, !.model_proto.graph = m.graph]


----------------------------------------------------------------------------
(* The load and save entry points.  Each operator is one call: it yields   *)
(* how the call ends (ret), the output handle / the Model after it (model) *)
(* and the collaborator calls it made (ev).                                *)

InvalidArgument(msg) == MakeStatus("ONNXRUNTIME", "INVALID_ARGUMENT", msg)
InvalidProtobuf(msg) == MakeStatus("ONNXRUNTIME", "INVALID_PROTOBUF", msg)

Outcome(r, m, ev) == [ret |-> r, model |-> m, ev |-> ev]

\* The log lines of a constructor call, as events.
WarningEvents(warnings) == [i \in 1..Len(warnings) |-> Ev("LogWarning", warnings[i], StatusOK)]

\* ResolveAndReturn without the ORT_RETURN_IF_ERROR around Resolve: the
\* status Resolve reports is dropped.
ResolveAndReturnIgnoringStatus(c, rs, before) ==
  Outcome(Returned(StatusOK), c.model,
          before \o <<Ev("Model", 0, StatusOK)>> \o WarningEvents(c.warnings)
                 \o <<Ev("Resolve", 1, rs)>>)

\* ORT_RETURN_IF_ERROR(model->MainGraph().Resolve(true)); return Status::OK();
\* after `model.reset(new Model(...))` succeeded (model.cc:254-256, 273-275,
\* 362-364, 399-401).  `before` are the events up to the constructor call.
ResolveAndReturn(c, rs, before) ==
  Outcome(Returned(IF ~IsOK(rs) THEN rs ELSE StatusOK), c.model,
          before \o <<Ev("Model", 0, StatusOK)>> \o WarningEvents(c.warnings)
                 \o <<Ev("Resolve", 1, rs)>>)

\* model.cc:240-257, Model::Load(const ModelProto&, shared_ptr<Model>&, ...).
LoadProtoRef(model_proto, model, latest, order, rs) ==
  IF ~model_proto.has_graph
    THEN Outcome(Returned(InvalidArgument("No graph was found in the protobuf.")), model, <<>>)
  ELSE LET c == ModelFromProto(model_proto, latest, order)
       IN IF c.thrown
            THEN Outcome(Returned(InvalidArgument("Failed to load model with error: " \o c.what)),
                         model, <<Ev("Model", 0, Exception(c.what))>>)
            ELSE ResolveAndReturn(c, rs, <<>>)

\* What dereferencing a null unique_ptr at model.cc:261 can do: the process
\* faults, or has_graph() reads whatever lies at that address.
NullDerefOutcomes == {"fault", "reads false", "reads true"}

\* model.cc:259-276, Model::Load(std::unique_ptr<ModelProto>, shared_ptr<Model>&, ...).
LoadProtoOwned(p_model_proto, model, latest, order, rs, deref) ==
  IF p_model_proto.null /\ deref = "fault"
    THEN Outcome([kind |-> "fault", status |-> StatusOK, what |-> ""], model, <<>>)
  ELSE IF (p_model_proto.null /\ deref = "reads false")
          \/ (~p_model_proto.null /\ ~p_model_proto.has_graph)
    THEN Outcome(Returned(InvalidArgument("No graph was found in the protobuf.")), model, <<>>)
  ELSE LET c == ModelFromProto(p_model_proto, latest, order)
       IN IF c.thrown
            THEN Outcome(Returned(InvalidArgument("Failed to load model with error: " \o c.what)),
                         model, <<Ev("Model", 0, Exception(c.what))>>)
            ELSE ResolveAndReturn(c, rs, <<>>)

\* model.cc:353-365, Model::LoadFromBytes.  make_shared<Model> is not inside
\* a try block: what the constructor throws leaves the call.
LoadFromBytes(bytes, model, latest, order, rs) ==
  IF ~bytes.parses
    THEN Outcome(Returned(InvalidProtobuf("Protobuf parsing failed.")), model,
                 <<Ev("Parse", 0, CodecError)>>)
  ELSE LET c == ModelFromProto(bytes.proto, latest, order)
       IN IF c.thrown
            THEN Outcome(Thrown(c.what), model, <<Ev("Parse", 0, StatusOK), Ev("Model", 0, Exception(c.what))>>)
            ELSE ResolveAndReturn(c, rs, <<Ev("Parse", 0, StatusOK)>>)

\* What reading descriptor fd yields: the byte source if fd is open, a read
\* error (GetErrno() # 0) otherwise.
ReadFd(fd, open, bytes) == IF fd \in open THEN bytes ELSE Garbage

\* Load(fd) without the p_fd < 0 guard of model.cc:372-374.
LoadFdUnguarded(fd, open, bytes, model, latest, order, rs) ==
  IF ~ReadFd(fd, open, bytes).parses
    THEN Outcome(Returned(InvalidProtobuf("Protobuf parsing failed.")), model,
                 <<Ev("Parse", fd, CodecError)>>)
  ELSE LET c == ModelFromProto(ReadFd(fd, open, bytes).proto, latest, order)
       IN IF c.thrown
            THEN Outcome(Thrown(c.what), model, <<Ev("Parse", fd, StatusOK), Ev("Model", 0, Exception(c.what))>>)
            ELSE ResolveAndReturn(c, rs, <<Ev("Parse", fd, StatusOK)>>)

\* model.cc:371-402, Model::Load(int fd, shared_ptr<Model>&, ...).
LoadFd(fd, open, bytes, model, latest, order, rs) ==
  IF fd < 0
    THEN Outcome(Returned(InvalidArgument("<p_fd> less than 0.")), model, <<>>)
  ELSE IF ~ReadFd(fd, open, bytes).parses
    THEN Outcome(Returned(InvalidProtobuf("Protobuf parsing failed.")), model,
                 <<Ev("Parse", fd, CodecError)>>)
  ELSE LET c == ModelFromProto(ReadFd(fd, open, bytes).proto, latest, order)
       IN IF c.thrown
            THEN Outcome(Thrown(c.what), model, <<Ev("Parse", fd, StatusOK), Ev("Model", 0, Exception(c.what))>>)
            ELSE ResolveAndReturn(c, rs, <<Ev("Parse", fd, StatusOK)>>)

\* Env::FileClose(fd): fails on a descriptor that is not open, may fail on
\* one that is (cs); either way the descriptor is no longer open afterwards.
CloseStatus(fd, open, cs) ==
  IF fd \in open THEN cs ELSE MakeStatus("SYSTEM", "EBADF", "")

\* LoadModel with the FileClose of its catch block (model.cc:299) left out.
LoadModelLeakOnThrow(os, fd, open, bytes, model, latest, order, rs, cs) ==
  IF ~IsOK(os) /\ os.category = "SYSTEM"
    THEN Outcome(Returned(MakeStatus("ONNXRUNTIME", "FAIL", "system error number " \o os.code)),
                 model, <<Ev("FileOpenRd", fd, os)>>)
  ELSE LET inner == LoadFd(fd, open, bytes, model, latest, order, rs)
           opened == <<Ev("FileOpenRd", fd, os)>> \o inner.ev
           closed == opened \o <<Ev("FileClose", fd, CloseStatus(fd, open, cs))>>
       IN IF inner.ret.kind = "throw"
            THEN Outcome(Returned(MakeStatus("ONNXRUNTIME", "FAIL", inner.ret.what)),
                         inner.model, opened)
          ELSE IF ~IsOK(inner.ret.status)
            THEN Outcome(inner.ret, inner.model, closed)
          ELSE Outcome(Returned(CloseStatus(fd, open, cs)), inner.model, closed)

\* LoadModel with the FileClose of model.cc:303 replaced by
\* ORT_RETURN_IF_ERROR(FileClose(fd)): a failed close takes the place of the
\* load's own status.
LoadModelCloseFirst(os, fd, open, bytes, model, latest, order, rs, cs) ==
  IF ~IsOK(os) /\ os.category = "SYSTEM"
    THEN Outcome(
           Returned(
             IF os.code = "ENOENT"
               THEN MakeStatus("ONNXRUNTIME", "NO_SUCHFILE", "Load model failed. File doesn't exist")
             ELSE IF os.code = "EINVAL"
               THEN InvalidArgument("Load model failed")
             ELSE MakeStatus("ONNXRUNTIME", "FAIL", "system error number " \o os.code)),
           model, <<Ev("FileOpenRd", fd, os)>>)
  ELSE LET inner == LoadFd(fd, open, bytes, model, latest, order, rs)
           opened == <<Ev("FileOpenRd", fd, os)>> \o inner.ev
           closed == opened \o <<Ev("FileClose", fd, CloseStatus(fd, open, cs))>>
       IN IF inner.ret.kind = "throw"
            THEN Outcome(Returned(MakeStatus("ONNXRUNTIME", "FAIL", inner.ret.what)),
                         inner.model, closed)
          ELSE IF ~IsOK(inner.ret.status) /\ IsOK(CloseStatus(fd, open, cs))
            THEN Outcome(inner.ret, inner.model, closed)
          ELSE Outcome(Returned(CloseStatus(fd, open, cs)), inner.model, closed)

\* model.cc:278-308, LoadModel(file_path, p_model, local_registries).
\* `os` is what FileOpenRd returned and `fd` the value of the local fd after
\* it: the new descriptor when the open succeeded, whatever the
\* uninitialised local holds otherwise.  `open` are the descriptors open
\* once FileOpenRd has returned.
LoadModel(os, fd, open, bytes, model, latest, order, rs, cs) ==
  IF ~IsOK(os) /\ os.category = "SYSTEM"
    THEN Outcome(
           Returned(
             IF os.code = "ENOENT"
               THEN MakeStatus("ONNXRUNTIME", "NO_SUCHFILE", "Load model failed. File doesn't exist")
             ELSE IF os.code = "EINVAL"
               THEN InvalidArgument("Load model failed")
             ELSE MakeStatus("ONNXRUNTIME", "FAIL", "system error number " \o os.code)),
           model, <<Ev("FileOpenRd", fd, os)>>)
  ELSE LET inner == LoadFd(fd, open, bytes, model, latest, order, rs)
           opened == <<Ev("FileOpenRd", fd, os)>> \o inner.ev
           closed == opened \o <<Ev("FileClose", fd, CloseStatus(fd, open, cs))>>
       IN IF inner.ret.kind = "throw"
            THEN Outcome(Returned(MakeStatus("ONNXRUNTIME", "FAIL", inner.ret.what)),
                         inner.model, closed)
          ELSE IF ~IsOK(inner.ret.status)
            THEN Outcome(inner.ret, inner.model, closed)
          ELSE Outcome(Returned(CloseStatus(fd, open, cs)), inner.model, closed)

\* Save without the ORT_RETURN_IF_ERROR around Resolve (model.cc:409): the
\* descriptor is snapshot and written whatever Resolve reports.
SaveFdIgnoringResolve(model, p_fd, open, rs, ws) ==
  IF p_fd < 0
    THEN Outcome(Returned(InvalidArgument("<p_fd> is less than 0.")), model, <<>>)
  ELSE LET result == ws /\ p_fd \in open
       IN Outcome(Returned(IF result THEN StatusOK
                                     ELSE InvalidProtobuf("Protobuf serialization failed.")),
                  ToProtoModel(model),
                  <<Ev("Resolve", 0, rs), Ev("ToProto", 0, StatusOK),
                    Ev("Serialize", p_fd, IF result THEN StatusOK ELSE CodecError)>>)

\* model.cc:404-418, Model::Save(Model&, int p_fd).  `rs` is what
\* Resolve() returns, `ws` whether SerializeToZeroCopyStream and Flush succeed
\* on an open descriptor.
SaveFd(model, p_fd, open, rs, ws) ==
  IF p_fd < 0
    THEN Outcome(Returned(InvalidArgument("<p_fd> is less than 0.")), model, <<>>)
  ELSE IF ~IsOK(rs)
    THEN Outcome(Returned(rs), model, <<Ev("Resolve", 0, rs)>>)
  ELSE LET result == ws /\ p_fd \in open
       IN Outcome(Returned(IF result THEN StatusOK
                                     ELSE InvalidProtobuf("Protobuf serialization failed.")),
                  ToProtoModel(model),
                  <<Ev("Resolve", 0, rs), Ev("ToProto", 0, StatusOK),
                    Ev("Serialize", p_fd, IF result THEN StatusOK ELSE CodecError)>>)

\* model.cc:310-328, SaveModel(model, file_path).
SaveModel(model, os, fd, open, rs, ws, cs) ==
  IF ~IsOK(os)
    THEN Outcome(Returned(os), model, <<Ev("FileOpenWr", fd, os)>>)
  ELSE LET inner == SaveFd(model, fd, open, rs, ws)
           opened == <<Ev("FileOpenWr", fd, os)>> \o inner.ev
           closed == opened \o <<Ev("FileClose", fd, CloseStatus(fd, open, cs))>>
       IN IF inner.ret.kind = "throw"
            THEN Outcome(Returned(MakeStatus("ONNXRUNTIME", "FAIL", inner.ret.what)),
                         inner.model, closed)
          ELSE IF ~IsOK(inner.ret.status)
            THEN Outcome(inner.ret, inner.model, closed)
          ELSE Outcome(Returned(CloseStatus(fd, open, cs)), inner.model, closed)


----------------------------------------------------------------------------
(* State machine *)

\* A default-constructed ModelProto: no graph, no opset import.
EmptyProto == Proto(FALSE, "g0", <<>>, <<>>, "", <<>>)

\* The descriptor the caller holds before a load: the first one open at 3.
InitialFds == {3}

\* The values an uninitialised `int fd` may hold.
FdValues == {-1, 3, 4}

\* open(2) returns the lowest descriptor not in use.
NewFd(open) == CHOOSE n \in 3..(3 + Cardinality(open)) : n \notin open /\ \A m \in 3..(n - 1) : m \in open

\* What FileOpenRd / FileOpenWr can leave behind: the status returned and
\* the value of the caller's local `int fd`.  A successful open stores the
\* new descriptor; the POSIX Env stores -1 when open(2) fails; an Env that
\* fails otherwise need not store anything.
OpenResults(open) ==
  { r \in [status : OpenStatuses, fd : FdValues \cup {NewFd(open)}] :
      \/ IsOK(r.status) /\ r.fd = NewFd(open)
      \/ ~IsOK(r.status) /\ r.status.category = "SYSTEM" /\ r.fd = -1
      \/ ~IsOK(r.status) /\ r.status.category # "SYSTEM" /\ r.fd \in FdValues }

ImportEntries == { OpsetId(d, v) : d \in ImportDomains, v \in ImportVersions }

\* External descriptors, for the negotiation: every import list up to MaxOpsets.
NegotiationProtos ==
  { Proto(TRUE, "g0", imports, <<>>, "", <<>>) : imports \in SeqsUpTo(ImportEntries, MaxOpsets) }

\* External descriptors, for the load lifecycle: with and without a graph,
\* with and without imports, with and without metadata.
LifecycleProtos ==
  { Proto(hg, "g0", imports, <<Prop("k1", "a")>>, "X", <<>>) :
      hg \in BOOLEAN, imports \in SeqsUpTo({OpsetId(kOnnxDomain, 9)}, MaxOpsets) }

TypeOK ==
  /\ registry \in Registries
  /\ p_model.bound \in BOOLEAN
  /\ open_fds \subseteq 3..4
  /\ ret.kind \in {"none", "return", "throw", "fault"}

Idle ==
  /\ origin = NoModel
  /\ p_model = NoModel
  /\ open_fds = InitialFds
  /\ op = "none"
  /\ ret = NoCall
  /\ events = <<>>

\* The caller holds a byte source and a default-constructed ModelProto.
Init ==
  /\ registry \in Registries
  /\ file \in {Garbage} \cup { Encoded(p) : p \in LifecycleProtos }
  /\ desc = EmptyProto
  /\ Idle

Called(name, o) ==
  /\ op' = name
  /\ ret' = o.ret
  /\ p_model' = o.model
  /\ events' = o.ev

\* model.cc:225-238, Model::Load(std::istream&, ModelProto*): decode the byte
\* source into the caller's descriptor.
LoadStream ==
  \E good \in BOOLEAN :
    /\ op' = "Load(istream)"
    /\ ret' = Returned(IF ~good THEN InvalidArgument("Invalid istream object.")
                       ELSE IF ~file.parses
                         THEN InvalidProtobuf("Failed to load model because protobuf parsing failed.")
                       ELSE StatusOK)
    /\ desc' = IF ~good THEN desc ELSE IF file.parses THEN file.proto ELSE EmptyProto
    /\ origin' = IF good THEN NoModel ELSE origin
    /\ events' = IF good THEN <<Ev("Parse", 0, IF file.parses THEN StatusOK ELSE CodecError)>> ELSE <<>>
    /\ UNCHANGED <<registry, file, p_model, open_fds>>

CallLoadProtoRef ==
  \E order \in Orders(DOMAIN registry), rs \in ResolveStatuses :
    /\ Called("Load(proto&)", LoadProtoRef(desc, p_model, registry, order, rs))
    /\ UNCHANGED <<registry, file, desc, origin, open_fds>>

CallLoadProtoOwned ==
  \E p \in {NullProto, desc}, order \in Orders(DOMAIN registry), rs \in ResolveStatuses :
   \E deref \in IF p.null THEN NullDerefOutcomes ELSE {"none"} :
    /\ Called("Load(unique_ptr)", LoadProtoOwned(p, p_model, registry, order, rs, deref))
    /\ UNCHANGED <<registry, file, desc, origin, open_fds>>

CallLoadFromBytes ==
  \E order \in Orders(DOMAIN registry), rs \in ResolveStatuses :
    /\ Called("LoadFromBytes", LoadFromBytes(file, p_model, registry, order, rs))
    /\ UNCHANGED <<registry, file, desc, origin, open_fds>>

\* The file descriptors a caller passes: those an int may hold, negative
\* ones included.
FdArguments == FdValues \cup {-2}

\* Model::Load(fd, p_model, local_registries) called with file descriptor fd.
LoadFdWith(fd) ==
  \E order \in Orders(DOMAIN registry), rs \in ResolveStatuses :
    /\ Called("Load(fd)", LoadFd(fd, open_fds, file, p_model, registry, order, rs))
    /\ UNCHANGED <<registry, file, desc, origin, open_fds>>

CallLoadFd == \E fd \in FdArguments : LoadFdWith(fd)

\* Model::Load(path) = LoadModel (model.cc:345-347, 278-308).
CallLoadPath ==
  \E opened \in OpenResults(open_fds), order \in Orders(DOMAIN registry),
     rs \in ResolveStatuses, cs \in CloseStatuses :
    LET os == opened.status
        fd == opened.fd
        open == IF IsOK(os) THEN open_fds \cup {fd} ELSE open_fds
        o == LoadModel(os, fd, open, file, p_model, registry, order, rs, cs)
    IN /\ Called("Load(path)", o)
       /\ open_fds' = IF \E i \in DOMAIN o.ev : o.ev[i].call = "FileClose"
                        THEN open \ {fd} ELSE open
       /\ UNCHANGED <<registry, file, desc, origin>>

\* Model::Save(*p_model, fd) called with file descriptor fd.
SaveFdWith(fd) ==
  /\ p_model.bound
  /\ \E rs \in ResolveStatuses, ws \in BOOLEAN :
       /\ Called("Save(fd)", SaveFd(p_model, fd, open_fds, rs, ws))
       /\ UNCHANGED <<registry, file, desc, origin, open_fds>>

CallSaveFd == \E fd \in FdArguments : SaveFdWith(fd)

\* Model::Save(model, path) = SaveModel (model.cc:349-351, 310-328).
CallSavePath ==
  /\ p_model.bound
  /\ \E opened \in OpenResults(open_fds), rs \in ResolveStatuses,
        ws \in BOOLEAN, cs \in CloseStatuses :
       LET os == opened.status
           fd == opened.fd
           open == IF IsOK(os) THEN open_fds \cup {fd} ELSE open_fds
           o == SaveModel(p_model, os, fd, open, rs, ws, cs)
       IN /\ Called("Save(path)", o)
          /\ open_fds' = IF \E i \in DOMAIN o.ev : o.ev[i].call = "FileClose"
                           THEN open \ {fd} ELSE open
          /\ UNCHANGED <<registry, file, desc, origin>>

\* The caller takes the Model's descriptor: desc = p_model->ToProto().
CallToProto ==
  /\ p_model.bound
  /\ op' = "ToProto"
  /\ ret' = NoCall
  /\ events' = <<>>
  /\ p_model' = ToProtoModel(p_model)
  /\ desc' = ToProtoModel(p_model).model_proto
  /\ origin' = ToProtoModel(p_model)
  /\ UNCHANGED <<registry, file, open_fds>>

Next ==
  \/ LoadStream
  \/ CallLoadProtoRef
  \/ CallLoadProtoOwned
  \/ CallLoadFromBytes
  \/ CallLoadFd
  \/ CallLoadPath
  \/ CallSaveFd
  \/ CallSavePath
  \/ CallToProto

Spec == Init /\ [][Next]_vars

\* The caller-supplied domain_to_version and model_metadata maps of a fresh
\* construction.
FreshVersions == {9, 13}
FreshTables == UNION { [S -> FreshVersions] : S \in SUBSET ImportDomains }
FreshMetaData == UNION { [S -> MetaValues] : S \in SUBSET MetaKeys }

\* p_model = std::make_shared<Model>(graph_name, is_onnx_domain_only,
\* model_metadata, local_registries, domain_to_version, {}) into an empty handle.
ConstructWith(only, meta, table) ==
  /\ ~p_model.bound
  /\ \E meta_order \in Orders(DOMAIN meta),
        opset_order \in Orders(IF DOMAIN table = {}
                                 THEN DOMAIN GetLatestOpsetVersions(registry, only)
                                 ELSE DOMAIN table) :
       /\ p_model' = FreshModel(only, meta, registry, table, <<>>, meta_order, opset_order)
       /\ op' = "Model"
       /\ ret' = NoCall
       /\ events' = <<>>
       /\ UNCHANGED <<registry, file, desc, origin, open_fds>>

\* The fresh constructor called with any flag, metadata from `metas` and a
\* domain_to_version map from `tables`.
Construct(metas, tables) ==
  \E only \in BOOLEAN, meta \in metas, table \in tables : ConstructWith(only, meta, table)

CallConstruct == Construct(FreshMetaData, FreshTables)

CallSetProducerName ==
  /\ p_model.bound
  /\ \E name \in ProducerNames :
       /\ p_model' = SetProducerNameModel(p_model, name)
       /\ op' = "SetProducerName"
       /\ ret' = NoCall
       /\ events' = <<>>
       /\ UNCHANGED <<registry, file, desc, origin, open_fds>>

\* The round trip: construct a fresh Model, set its producer name, take its
\* descriptor with ToProto, load the descriptor.
InitRoundTrip ==
  /\ registry \in Registries
  /\ file = Garbage
  /\ desc = EmptyProto
  /\ Idle

NextRoundTrip ==
  \/ CallConstruct
  \/ CallSetProducerName
  \/ CallToProto
  \/ CallLoadProtoRef

SpecRoundTrip == InitRoundTrip /\ [][NextRoundTrip]_vars

\* The opset negotiation of the decode constructor: the caller holds an
\* external descriptor, loads it, takes the Model's descriptor back with
\* ToProto and loads that again.
InitNegotiation ==
  /\ registry \in Registries
  /\ desc \in NegotiationProtos
  /\ file = Encoded(desc)
  /\ Idle

NextNegotiation ==
  \/ CallLoadProtoRef
  \/ CallToProto

SpecNegotiation == InitNegotiation /\ [][NextNegotiation]_vars

\* The values the accessors are called with.
ProducerVersions == {"1.0"}
Domains == {"org"}
ModelVersions == {1}
DocStrings == {"doc"}
FunctionProtos == {"f"}

\* Most functions a caller adds to one Model.
MaxFunctions == 1

\* A call that returns no Status and makes no collaborator call.
Accessed(name, m) ==
  /\ p_model.bound
  /\ p_model' = m
  /\ op' = name
  /\ ret' = NoCall
  /\ events' = <<>>
  /\ UNCHANGED <<registry, file, desc, origin, open_fds>>

CallSetProducerVersion ==
  \E v \in ProducerVersions : Accessed("SetProducerVersion", SetProducerVersionModel(p_model, v))

CallSetDomain ==
  \E d \in Domains : Accessed("SetDomain", SetDomainModel(p_model, d))

CallSetModelversion ==
  \E v \in ModelVersions : Accessed("SetModelversion", SetModelversionModel(p_model, v))

CallSetDocString ==
  \E d \in DocStrings : Accessed("SetDocString", SetDocStringModel(p_model, d))

CallAddFunction ==
  /\ Len(p_model.model_proto.functions) < MaxFunctions
  /\ \E f \in FunctionProtos : Accessed("AddFunction", AddFunctionModel(p_model, f))

\* The caller edits the graph through MainGraph().
CallMainGraph ==
  \E g \in GraphValues : Accessed("MainGraph", MainGraphModel(p_model, g))

\* model.cc:152-161, 167-169, 175-177, 183-188, 194-196, 202-204: IrVersion,
\* ProducerName, ProducerVersion, Domain, ModelVersion, DocString, MetaData
\* are const member functions.
CallGetter == Accessed("Get", p_model)

\* The fresh constructor called without metadata, with an empty or a
\* one-entry domain_to_version map.
CallConstructBare ==
  Construct({EmptyMap}, {EmptyMap, [d \in {kOnnxDomain} |-> 9]})

\* External descriptors, for the accessors: a graph, and no import or one.
AccessorProtos ==
  { Proto(TRUE, "g1", imports, <<>>, "", <<>>) :
      imports \in {<<>>, <<OpsetId(kOnnxDomain, 9)>>} }

\* The accessors: the caller holds an external descriptor, constructs a
\* Model (fresh, or by loading the descriptor), calls setters, AddFunction,
\* getters, edits the graph, and takes the descriptor with ToProto.  The
\* registry knows the default domain and one more.
InitAccessors ==
  /\ registry \in { r \in Registries : DOMAIN r = {kOnnxDomain, kMLDomain} }
  /\ desc \in AccessorProtos
  /\ file = Garbage
  /\ Idle

NextAccessors ==
  \/ CallConstructBare
  \/ CallLoadProtoRef
  \/ CallSetProducerName
  \/ CallSetProducerVersion
  \/ CallSetDomain
  \/ CallSetModelversion
  \/ CallSetDocString
  \/ CallAddFunction
  \/ CallMainGraph
  \/ CallGetter
  \/ CallToProto

SpecAccessors == InitAccessors /\ [][NextAccessors]_vars

\* The fresh constructor called without metadata, with any
\* domain_to_version map.
CallConstructPlain == Construct({EmptyMap}, FreshTables)

\* Fresh construction: the caller constructs a Model and takes its
\* descriptor.
InitFresh ==
  /\ registry \in Registries
  /\ desc = EmptyProto
  /\ file = Garbage
  /\ Idle

NextFresh ==
  \/ CallConstructPlain
  \/ CallToProto

SpecFresh == InitFresh /\ [][NextFresh]_vars

\* The save lifecycle: the caller loads a Model from a descriptor or from a
\* file descriptor, edits its graph through MainGraph(), and saves it to a
\* file descriptor or to a path.
InitSave ==
  /\ registry \in Registries
  /\ desc = Proto(TRUE, "g0", <<OpsetId(kOnnxDomain, 9)>>, <<>>, "", <<>>)
  /\ file = Encoded(desc)
  /\ Idle

NextSave ==
  \/ CallLoadProtoRef
  \/ CallLoadFd
  \/ CallMainGraph
  \/ CallSaveFd
  \/ CallSavePath

SpecSave == InitSave /\ [][NextSave]_vars


----------------------------------------------------------------------------
(* Properties of the load and save entry points *)

\* The entry points that take an output model handle.
LoadOps == {"Load(proto&)", "Load(unique_ptr)", "LoadFromBytes", "Load(fd)", "Load(path)"}

\* The entry points that decode a byte source themselves.
DecodingOps == {"LoadFromBytes", "Load(fd)", "Load(path)"}

PathOps == {"Load(path)", "Save(path)"}

ReturnedCode(code) == ret.kind = "return" /\ ret.status.code = code
ReturnedOK == ret.kind = "return" /\ IsOK(ret.status)

\* The last call made collaborator call `call`, and it ended well / badly.
Did(call) == \E i \in DOMAIN events : events[i].call = call
Succeeded(call) == \E i \in DOMAIN events : events[i].call = call /\ events[i].ok
Failed(call) == \E i \in DOMAIN events : events[i].call = call /\ ~events[i].ok

\* A descriptor that violates a precondition of the decode constructor.
Unconstructible(p) == ~p.has_graph \/ Len(p.opset_import) = 0

\* C1: a load that ends with a non-OK status leaves the caller's output
\* handle holding the value it had before the call.
C1_HandleKeptOnFailure ==
  [][(op' \in LoadOps /\ ret'.kind = "return" /\ ~IsOK(ret'.status)) => p_model' = p_model]_vars

\* C2: no load entry point ends by an exception leaving it: each of
\* Load(descriptor), LoadFromBytes, Load(fd), Load(path) ends by returning a
\* status.
C2_NoExceptionEscapes ==
  op \in {"Load(proto&)", "LoadFromBytes", "Load(fd)", "Load(path)"} => ret.kind # "throw"

\* C3: on every surface, a load whose input decodes but has no graph field
\* or no opset import reports InvalidArgument.
C3_UnconstructibleIsInvalidArgument ==
  /\ (op = "Load(proto&)" /\ Unconstructible(desc)) => ReturnedCode("INVALID_ARGUMENT")
  /\ (op \in DecodingOps /\ Succeeded("Parse") /\ Unconstructible(file.proto))
       => ReturnedCode("INVALID_ARGUMENT")

\* C4: in a path-based load or save, when everything but the final close of
\* the file succeeded, the call returns OK.
C4_CloseFailureDoesNotFailTheCall ==
  (/\ op \in PathOps
   /\ Failed("FileClose")
   /\ \A i \in DOMAIN events : events[i].call # "FileClose" => events[i].ok)
    => ReturnedOK

\* C5: in a path-based load or save, every successful open is followed by
\* exactly one close of the descriptor it returned, on every exit path, and
\* the descriptor is not open when the call has returned.
C5_OpenedIsClosedOnce ==
  op \in PathOps =>
    \A i \in DOMAIN events :
      (events[i].call \in {"FileOpenRd", "FileOpenWr"} /\ events[i].ok) =>
        /\ Cardinality({ j \in DOMAIN events :
                           events[j].call = "FileClose" /\ events[j].arg = events[i].arg }) = 1
        /\ \E j \in DOMAIN events :
             j > i /\ events[j].call = "FileClose" /\ events[j].arg = events[i].arg
        /\ events[i].arg \notin open_fds

\* C5 witness: a path-based load whose constructor threw after a successful
\* open, and which closed the descriptor.
C5_Witness ==
  /\ op = "Load(path)"
  /\ Succeeded("FileOpenRd")
  /\ Failed("Model")
  /\ Did("FileClose")

\* C6: in a path-based load every failure of the open makes the load return
\* a non-OK status: NoSuchFile for ENOENT, InvalidArgument for EINVAL, Fail
\* for every other failure, whatever its category.
C6_OpenFailureIsMapped ==
  (op = "Load(path)" /\ Failed("FileOpenRd")) =>
    LET os == events[1].status
    IN ReturnedCode(IF os.category = "SYSTEM" /\ os.code = "ENOENT" THEN "NO_SUCHFILE"
                    ELSE IF os.category = "SYSTEM" /\ os.code = "EINVAL" THEN "INVALID_ARGUMENT"
                    ELSE "FAIL")


----------------------------------------------------------------------------
(* Properties of the decode constructor's opset negotiation *)

\* The last call was Load(const ModelProto&) on `desc` and its constructor
\* call succeeded: p_model is the Model constructed from desc.
Decoded == op = "Load(proto&)" /\ Succeeded("Model")

\* The positions of the import list whose entry is for the default domain,
\* under either spelling.
DefaultDomainEntries(imports) ==
  { i \in DOMAIN imports : imports[i].domain \in {kOnnxDomain, kOnnxDomainAlias} }

\* The import list names the default domain exactly twice: canonically at
\* version 9 and under the alias at version 11.
CanonicalNineAliasEleven(imports) ==
  /\ Cardinality(DefaultDomainEntries(imports)) = 2
  /\ \E i \in DOMAIN imports : imports[i] = OpsetId(kOnnxDomain, 9)
  /\ \E i \in DOMAIN imports : imports[i] = OpsetId(kOnnxDomainAlias, 11)

Position(imports, e) == CHOOSE i \in DOMAIN imports : imports[i] = e

\* C7 as stated: whichever order the canonical entry (version 9) and the
\* alias entry (version 11) come in, the resolved table has the canonical
\* key at version 11 and no alias key.
C7_AliasWinsInAnyOrder ==
  (Decoded /\ CanonicalNineAliasEleven(desc.opset_import)) =>
    /\ kOnnxDomainAlias \notin DOMAIN p_model.domain_to_version
    /\ p_model.domain_to_version[kOnnxDomain] = 11

\* C7 amended: the resolved table has no alias key and holds, under the
\* canonical key, the version of whichever of the two entries comes later in
\* the list: 11 when the alias entry follows the canonical one, 9 when it
\* precedes it.
C7_LaterEntryWins ==
  (Decoded /\ CanonicalNineAliasEleven(desc.opset_import)) =>
    /\ kOnnxDomainAlias \notin DOMAIN p_model.domain_to_version
    /\ p_model.domain_to_version[kOnnxDomain] =
         IF Position(desc.opset_import, OpsetId(kOnnxDomainAlias, 11))
              > Position(desc.opset_import, OpsetId(kOnnxDomain, 9))
           THEN 11 ELSE 9

\* C7 witness: the alias entry comes first and the canonical one wins.
C7_Witness ==
  /\ Decoded
  /\ CanonicalNineAliasEleven(desc.opset_import)
  /\ Position(desc.opset_import, OpsetId(kOnnxDomainAlias, 11))
       < Position(desc.opset_import, OpsetId(kOnnxDomain, 9))
  /\ p_model.domain_to_version[kOnnxDomain] = 9

\* The keys of the resolved table once the explicit import list is processed.
ExplicitKeys(imports) ==
  { IF imports[i].domain = kOnnxDomainAlias THEN kOnnxDomain ELSE imports[i].domain :
      i \in DOMAIN imports }

\* The registry domains the explicit import list leaves out.
Implicit(imports) == DOMAIN registry \ ExplicitKeys(imports)

\* C8: after a successful decode construction (1) every registry domain is
\* a key of the resolved table; (2) for each registry domain the explicit
\* list left out, exactly one entry (domain, latest version) was appended to
\* the import list and entered in the table, and nothing else was appended;
\* (3) the input list is an unchanged prefix of the descriptor's import list.
C8_DefaultFillRatchet ==
  Decoded =>
    LET input == desc.opset_import
        output == p_model.model_proto.opset_import
        appended == { i \in DOMAIN output : i > Len(input) }
    IN /\ DOMAIN registry \subseteq DOMAIN p_model.domain_to_version
       /\ \A d \in Implicit(input) :
            /\ Cardinality({ i \in appended : output[i].domain = d }) = 1
            /\ \E i \in appended : output[i] = OpsetId(d, registry[d])
            /\ p_model.domain_to_version[d] = registry[d]
       /\ \A i \in appended : output[i].domain \in Implicit(input)
       /\ Len(output) >= Len(input)
       /\ SubSeq(output, 1, Len(input)) = input

\* C8 witness: a decode construction that appended two defaults.
C8_Witness ==
  /\ Decoded
  /\ Cardinality(Implicit(desc.opset_import)) = 2
  /\ Len(p_model.model_proto.opset_import) = Len(desc.opset_import) + 2

\* Every registry domain has an entry in the import list.
ListsEveryRegistryDomain(imports) ==
  \A d \in DOMAIN registry : \E i \in DOMAIN imports : imports[i].domain = d

\* C10: decode construction of a descriptor that lists every registry
\* domain appends nothing; and decode construction of a descriptor taken
\* (ToProto) from a decode-constructed Model yields that Model's import list
\* and resolved table again.
C10_DefaultFillIdempotent ==
  /\ (Decoded /\ ListsEveryRegistryDomain(desc.opset_import))
       => p_model.model_proto.opset_import = desc.opset_import
  /\ (Decoded /\ origin.bound /\ origin.ctor = "decode")
       => /\ p_model.model_proto.opset_import = origin.model_proto.opset_import
          /\ p_model.domain_to_version = origin.domain_to_version

\* C10 witness: the second decode construction of a descriptor whose first
\* one appended a default.
C10_Witness ==
  /\ Decoded
  /\ origin.bound /\ origin.ctor = "decode"
  /\ LET imports == origin.model_proto.opset_import
         last == imports[Len(imports)]
     IN /\ last.domain \in DOMAIN registry
        /\ last.version = registry[last.domain]
  /\ p_model.model_proto.opset_import = origin.model_proto.opset_import


----------------------------------------------------------------------------
(* Round trip: fresh construction, ToProto, decode construction *)

\* The last call decode-constructed p_model from the descriptor ToProto took
\* from `origin`, a fresh Model built with an explicit domain_to_version map.
RoundTripped == Decoded /\ origin.bound /\ origin.ctor = "fresh-explicit"

\* C9 as stated: the decoded Model has the first Model's producer name,
\* metadata and resolved opset table (still exactly T).
C9_RoundTripKeepsTable ==
  RoundTripped =>
    /\ p_model.model_proto.producer_name = origin.model_proto.producer_name
    /\ p_model.model_metadata = origin.model_metadata
    /\ p_model.domain_to_version = origin.domain_to_version

\* C9 amended: producer name and metadata are the first Model's.  The
\* resolved table R holds T with the alias spelling folded into the
\* canonical key, plus the registry's latest version for every registry
\* domain T leaves out: it agrees with T on every other domain of T, maps
\* the canonical key to a version T gives the default domain under either
\* spelling, and equals T exactly when T has no alias key and names every
\* registry domain.
C9_RoundTripFillsDefaults ==
  RoundTripped =>
    LET T == origin.domain_to_version
        R == p_model.domain_to_version
        spellings == {kOnnxDomain, kOnnxDomainAlias}
        folded == (DOMAIN T \ spellings)
                    \cup (IF DOMAIN T \cap spellings # {} THEN {kOnnxDomain} ELSE {})
    IN /\ p_model.model_proto.producer_name = origin.model_proto.producer_name
       /\ p_model.model_metadata = origin.model_metadata
       /\ DOMAIN R = folded \cup DOMAIN registry
       /\ \A d \in DOMAIN T \ spellings : R[d] = T[d]
       /\ DOMAIN T \cap spellings # {}
            => R[kOnnxDomain] \in { T[k] : k \in DOMAIN T \cap spellings }
       /\ \A d \in DOMAIN registry \ folded : R[d] = registry[d]
       /\ (R = T) <=> (kOnnxDomainAlias \notin DOMAIN T /\ DOMAIN registry \subseteq DOMAIN T)

\* C9 witness: T = {"": 13}, producer name "X", two metadata entries, and a
\* registry that knows a domain T does not name.
C9_Witness ==
  /\ RoundTripped
  /\ DOMAIN origin.domain_to_version = {kOnnxDomain}
  /\ origin.domain_to_version[kOnnxDomain] = 13
  /\ p_model.model_proto.producer_name = "X"
  /\ DOMAIN p_model.model_metadata = MetaKeys
  /\ kMLDomain \in DOMAIN p_model.domain_to_version

----------------------------------------------------------------------------
(* Properties of the constructed Model and its accessors *)

\* C11: every Model a constructor produced (fresh with an explicit or an
\* empty domain_to_version map, or decoded from a descriptor) has at least one
\* opset import in its descriptor, also after any setters, AddFunction and
\* ToProto calls; and decode construction of a descriptor without opset
\* imports throws instead of producing a Model.
C11_OpsetImportNeverEmpty ==
  /\ p_model.bound => Len(p_model.model_proto.opset_import) > 0
  /\ (op = "Load(proto&)" /\ desc.has_graph /\ Len(desc.opset_import) = 0)
       => (Failed("Model") /\ ~ReturnedOK)

\* C11 witness: a Model freshly constructed with an empty domain_to_version
\* map, after SetDocString, AddFunction and ToProto.
C11_Witness ==
  /\ op = "ToProto"
  /\ p_model.ctor = "fresh-default"
  /\ p_model.model_proto.doc_string = "doc"
  /\ Len(p_model.model_proto.functions) = 1
  /\ Len(p_model.model_proto.opset_import) > 0

----------------------------------------------------------------------------
(* Load and save lifecycles *)

\* The positions of the last call's collaborator calls named `call`.
Calls(call) == { i \in DOMAIN events : events[i].call = call }

\* The lifecycle of one load: construction only after a successful decode
\* (where the entry point decodes), nothing after a failed decode or a failed
\* construction, Resolve(true) exactly once after a successful construction
\* and never otherwise, OK only when Resolve succeeded, and Resolve's own
\* status returned when it failed.
LoadLifecycle ==
  /\ op \in DecodingOps =>
       \A i \in Calls("Model") : \E j \in Calls("Parse") : j < i /\ events[j].ok
  /\ Failed("Parse") => (~Did("Model") /\ ~Did("Resolve") /\ ~ReturnedOK)
  /\ Failed("Model") => (~Did("Resolve") /\ ~ReturnedOK)
  /\ Cardinality(Calls("Resolve")) = (IF Succeeded("Model") THEN 1 ELSE 0)
  /\ \A i \in Calls("Resolve") :
       /\ events[i].arg = 1
       /\ \E j \in Calls("Model") : j < i /\ events[j].ok
       /\ ~events[i].ok => ret = Returned(events[i].status)
  /\ ReturnedOK => Succeeded("Resolve")

\* C12 as stated: every load entry point, the stream one included, follows
\* the load lifecycle.
C12_LifecycleOnEverySurface ==
  op \in LoadOps \cup {"Load(istream)"} => LoadLifecycle

\* C12 amended: every load entry point that yields a Model (descriptor,
\* byte buffer, file descriptor, path) follows the load lifecycle; the stream
\* entry point only decodes: it never constructs nor resolves, and returns OK
\* exactly when the decode succeeded.
C12_LifecycleOnModelSurfaces ==
  /\ op \in LoadOps => LoadLifecycle
  /\ op = "Load(istream)" =>
       /\ ~Did("Model") /\ ~Did("Resolve")
       /\ ReturnedOK <=> Succeeded("Parse")

\* C12 witness: a path-based load that decoded, constructed, and whose
\* Resolve(true) failed: the load returned Resolve's status.
C12_Witness ==
  /\ op = "Load(path)"
  /\ Succeeded("Parse") /\ Succeeded("Model") /\ Failed("Resolve")
  /\ ret.kind = "return" /\ ret.status.code = "INVALID_GRAPH"

SaveOps == {"Save(fd)", "Save(path)"}

\* The lifecycle of one save, from the calls it made: Resolve(false) comes
\* before any snapshot or write; if it failed, nothing follows it and its
\* status is returned; if it succeeded, one ToProto and then one write (encode,
\* emit, flush) follow; OK is returned only if the write succeeded, and
\* InvalidProtobuf if it failed.
SaveLifecycle ==
  /\ Cardinality(Calls("Resolve")) <= 1
  /\ \A i \in Calls("Resolve") :
       /\ events[i].arg = 0
       /\ \A j \in Calls("ToProto") \cup Calls("Serialize") : i < j
       /\ ~events[i].ok => ret = Returned(events[i].status)
  /\ Failed("Resolve") => (~Did("ToProto") /\ ~Did("Serialize"))
  /\ Cardinality(Calls("ToProto")) = (IF Succeeded("Resolve") THEN 1 ELSE 0)
  /\ Cardinality(Calls("Serialize")) = (IF Succeeded("Resolve") THEN 1 ELSE 0)
  /\ \A i \in Calls("ToProto") : \A j \in Calls("Serialize") : i < j
  /\ ReturnedOK => Succeeded("Serialize")
  /\ Failed("Serialize") => ReturnedCode("INVALID_PROTOBUF")
  /\ (op = "Save(fd)" /\ Succeeded("Serialize")) => ReturnedOK

\* Resolve(false) is the first thing a save does once it has a descriptor
\* to write to: a non-negative p_fd, a file that opened.
ResolveComesFirst ==
  /\ (op = "Save(fd)" /\ events # <<>>) => events[1].call = "Resolve"
  /\ (op = "Save(fd)" /\ events = <<>>) => ReturnedCode("INVALID_ARGUMENT")
  /\ (op = "Save(path)" /\ Succeeded("FileOpenWr")) => events[2].call = "Resolve"

\* C13: a save first invokes Resolve(false); if that fails the save returns
\* Resolve's status, the descriptor is not snapshot (the Model is left as it
\* was) and nothing is written; otherwise the engine graph is snapshot into the
\* descriptor, encoded and emitted, and the save returns OK only if encode,
\* emit and flush succeeded, InvalidProtobuf if they failed.
C13_SaveLifecycle ==
  /\ [](op \in SaveOps => (SaveLifecycle /\ ResolveComesFirst))
  /\ [][op' \in SaveOps =>
         p_model' = IF \E i \in DOMAIN events' : events'[i].call = "ToProto"
                      THEN ToProtoModel(p_model) ELSE p_model]_vars

\* C13 witness: a save of a Model whose graph was edited since it was
\* loaded, whose Resolve(false) failed: the descriptor still has the old graph.
C13_Witness ==
  /\ op \in SaveOps
  /\ Failed("Resolve")
  /\ p_model.graph # p_model.model_proto.graph

\* C14: for every negative file descriptor, Load(fd) returns
\* InvalidArgument, reads, decodes and constructs nothing and leaves the
\* output handle as it was; Save(model, fd) returns InvalidArgument, does not
\* call Resolve, does not snapshot the graph into the descriptor and writes
\* nothing.
C14_NegativeFdGuard ==
  [][\A fd \in FdArguments :
       (fd < 0 /\ (LoadFdWith(fd) \/ SaveFdWith(fd))) =>
         /\ ret'.kind = "return" /\ ret'.status.code = "INVALID_ARGUMENT"
         /\ events' = <<>>
         /\ p_model' = p_model]_vars

\* C14 witness: a Model whose graph was edited, and a call that the guard
\* turned away: the descriptor still has the graph it was loaded with.
C14_Witness ==
  /\ op \in {"Load(fd)", "Save(fd)"}
  /\ events = <<>>
  /\ ReturnedCode("INVALID_ARGUMENT")
  /\ p_model.bound
  /\ p_model.graph # p_model.model_proto.graph

\* The status the failure of a collaborator call inside Load(fd) / Save(fd)
\* makes that call end with; LoadModel / SaveModel turn an exception into
\* FAIL with the exception's message.
FailureStatus(e) ==
  IF e.call = "Parse" THEN InvalidProtobuf("Protobuf parsing failed.")
  ELSE IF e.call = "Serialize" THEN InvalidProtobuf("Protobuf serialization failed.")
  ELSE IF e.call = "Model" THEN MakeStatus("ONNXRUNTIME", "FAIL", e.status.msg)
  ELSE e.status

\* C15: in a path-based load or save, when a step of the inner load or save
\* failed (decode, construction by an exception, resolve, encode or flush) and
\* the close of the file failed as well, the call returns the status of the
\* inner failure, not that of the close.
C15_CloseFailureDoesNotReplaceFailure ==
  (op \in PathOps /\ Failed("FileClose")) =>
    \A i \in DOMAIN events :
      (events[i].call \in {"Parse", "Model", "Resolve", "Serialize"} /\ ~events[i].ok) =>
        /\ ret = Returned(FailureStatus(events[i]))
        /\ \A j \in Calls("FileClose") : ret.status # events[j].status

\* C15 witness: a path-based load of a file that opened, whose Resolve
\* failed and whose close failed: the load returned Resolve's status.
C15_Witness ==
  /\ op = "Load(path)"
  /\ Succeeded("FileOpenRd")
  /\ Failed("Resolve")
  /\ Failed("FileClose")
  /\ ReturnedCode("INVALID_GRAPH")

----------------------------------------------------------------------------
(* Properties of the decode constructor's import loop *)

\* C16: a decode construction logs the low-opset warning if and only if the
\* version the resolved table holds for the canonical default domain (after
\* alias normalisation and last-write-wins over the whole list) is below 7; and
\* the warning never makes construction fail: every descriptor with a graph and
\* an import constructs.
C16_WarningIffResolvedLow ==
  /\ Decoded =>
       (Did("LogWarning") <=> p_model.domain_to_version[kOnnxDomain] < MinSupportedOpset)
  /\ (op = "Load(proto&)" /\ ~Unconstructible(desc)) => Succeeded("Model")

\* The positions of the import list whose entry is stored under key d.
EntriesFor(imports, d) ==
  { i \in DOMAIN imports :
      (IF imports[i].domain = kOnnxDomainAlias THEN kOnnxDomain ELSE imports[i].domain) = d }

\* The last position in a non-empty set of positions.
LastOf(positions) == CHOOSE i \in positions : \A j \in positions : j <= i

\* C17: after a decode construction the resolved table has no key spelled
\* as the alias, and for every domain the import list names (the alias counted
\* as the canonical default domain) it holds the version of the last list
\* entry for that domain; a list naming the default domain in both spellings
\* constructs.
C17_LastWriteWins ==
  /\ Decoded =>
       /\ kOnnxDomainAlias \notin DOMAIN p_model.domain_to_version
       /\ \A d \in ImportDomains :
            EntriesFor(desc.opset_import, d) # {} =>
              /\ d \in DOMAIN p_model.domain_to_version
              /\ p_model.domain_to_version[d]
                   = desc.opset_import[LastOf(EntriesFor(desc.opset_import, d))].version
  /\ (op = "Load(proto&)" /\ ~Unconstructible(desc)
        /\ \E i, j \in DOMAIN desc.opset_import :
             desc.opset_import[i].domain = kOnnxDomain
               /\ desc.opset_import[j].domain = kOnnxDomainAlias)
       => Succeeded("Model")

----------------------------------------------------------------------------
(* Properties of the fresh constructor *)

\* The import list holds exactly the pairs of the table, each once.
ListsExactly(imports, table) ==
  /\ Len(imports) = Cardinality(DOMAIN table)
  /\ \A d \in DOMAIN table :
       Cardinality({ i \in DOMAIN imports : imports[i] = OpsetId(d, table[d]) }) = 1

\* C18: a fresh construction always yields a Model.  Called with a
\* non-empty domain_to_version map, the table the Model holds is that map,
\* whatever the registry knows; called with an empty one, it is the registry's
\* latest versions, of the default domain alone if the flag is set.  Either
\* way the descriptor's import list holds exactly the table's pairs, each once.
C18_FreshTableVerbatim ==
  [][op' = "Model" =>
       \A only \in BOOLEAN, table \in FreshTables :
         ConstructWith(only, EmptyMap, table) =>
           /\ p_model'.bound
           /\ p_model'.domain_to_version =
                IF DOMAIN table # {} THEN table
                ELSE IF only THEN [d \in {kOnnxDomain} |-> registry[d]]
                ELSE registry
           /\ ListsExactly(p_model'.model_proto.opset_import, p_model'.domain_to_version)]_vars

\* C18 witness: a Model freshly constructed with a map that names only the
\* alias spelling, which the registry does not know, and none of the domains
\* the registry knows.
C18_Witness ==
  /\ op = "Model"
  /\ p_model.ctor = "fresh-explicit"
  /\ DOMAIN p_model.domain_to_version = {kOnnxDomainAlias}
  /\ p_model.model_proto.opset_import = <<OpsetId(kOnnxDomainAlias, 13)>>

----------------------------------------------------------------------------
(* Frame of the accessors and of ToProto *)

\* The calls on a constructed Model other than ToProto.
AccessorOps ==
  {"SetProducerName", "SetProducerVersion", "SetDomain", "SetModelversion",
   "SetDocString", "AddFunction", "MainGraph", "Get"}

\* C19: when ToProto has returned, the descriptor's graph is the engine's
\* graph and the descriptor returned to the caller is the Model's; the
\* setters, AddFunction and the getters leave the descriptor's graph and its
\* import list as they were; ToProto changes nothing of the Model but the
\* descriptor's graph: import list, metadata, functions and scalar fields stay.
C19_ToProtoIsTheSyncPoint ==
  /\ [](op = "ToProto" =>
          /\ p_model.model_proto.has_graph
          /\ p_model.model_proto.graph = p_model.graph
          /\ desc = p_model.model_proto)
  /\ [][/\ op' \in AccessorOps =>
            /\ p_model'.model_proto.graph = p_model.model_proto.graph
            /\ p_model'.model_proto.has_graph = p_model.model_proto.has_graph
            /\ p_model'.model_proto.opset_import = p_model.model_proto.opset_import
        /\ op' = "ToProto" =>
            /\ [p_model'.model_proto EXCEPT !.graph = "g0", !.has_graph = TRUE]
                 = [p_model.model_proto EXCEPT !.graph = "g0", !.has_graph = TRUE]
            /\ [p_model' EXCEPT !.model_proto = NullProto]
                 = [p_model EXCEPT !.model_proto = NullProto]]_vars

\* C19 witness: a freshly constructed Model whose graph was edited through
\* MainGraph(), to which a function was added, after ToProto: the descriptor
\* carries the edited graph.
C19_Witness ==
  /\ op = "ToProto"
  /\ p_model.ctor = "fresh-default"
  /\ p_model.graph = "g1"
  /\ desc.graph = "g1"
  /\ Len(desc.functions) = 1

----------------------------------------------------------------------------
(* The file descriptor of a path-based load *)

\* C20: in a path-based load whose open failed, whatever the category of
\* the failure, nothing is decoded and nothing is closed; a read or a close is
\* only made on the descriptor a successful open of that call returned.
C20_NoReadOrCloseWithoutOpen ==
  op = "Load(path)" =>
    /\ Failed("FileOpenRd") => (~Did("Parse") /\ ~Did("FileClose"))
    /\ \A i \in Calls("Parse") \cup Calls("FileClose") :
         \E j \in Calls("FileOpenRd") :
           j < i /\ events[j].ok /\ events[j].arg = events[i].arg

====
